---- MODULE Spec2Model ----
(***************************************************************************)
(* Model of the matcher evaluation core of ScenarioInterpreter.java, as    *)
(* installed by add_helpers.py, fix_value_types.py and                     *)
(* fix_combined_matchers.py (sapl-test, io.sapl.test.plain).               *)
(*                                                                         *)
(* Every Java call has one of the outcomes "true", "false" or the name of  *)
(* the exception it throws.  A Java reference that may be null is either   *)
(* JavaNull or a record.  A String is JString(<<chars>>).                  *)
(***************************************************************************)
EXTENDS Integers, Sequences, FiniteSets, TLC

VARIABLES
    pc,              \* position of the call or scenario in progress
    subject,         \* the value, text, constraint list or decision under test
    matcher,         \* the matcher node, clause list or expectation applied
    predicate,       \* the predicate built from the clause list
    outcome,         \* "true", "false", an exception name, or "none" so far
    decisionResult   \* the DecisionResult the scenario's expectation runs on

vars == <<pc, subject, matcher, predicate, outcome, decisionResult>>

(***************************************************************************)
(* Bounds of the explored inputs.                                          *)
(***************************************************************************)
MaxArrayLen == 2
MaxMatchers == 3
MaxMembers == 2
MaxConstraints == 2
MaxTextLen == 3
MaxSubstrings == 2
MaxClauses == 2
MaxStream == 2
MaxSteps == 2

(***************************************************************************)
(* References, outcomes, strings.                                          *)
(***************************************************************************)
JavaNull == [ref |-> "null"]

Bool2Outcome(b) == IF b THEN "true" ELSE "false"

IsException(r) == r \notin {"true", "false"}

JString(s) == [chars |-> s]

\* Seq helpers over character sequences
RECURSIVE SeqsUpTo(_, _)
SeqsUpTo(S, n) ==
    IF n = 0 THEN {<<>>}
    ELSE LET shorter == SeqsUpTo(S, n - 1)
         IN  shorter \cup {Append(s, x) : s \in {t \in shorter : Len(t) = n - 1}, x \in S}

(***************************************************************************)
(* Value model (io.sapl.api.model.*Value).                                 *)
(***************************************************************************)
UndefinedValue == [tag |-> "Undefined"]
NullValue == [tag |-> "Null"]
BooleanValue(b) == [tag |-> "Boolean", bool |-> b]
NumberValue(n) == [tag |-> "Number", magnitude |-> n]
TextValue(s) == [tag |-> "Text", value |-> JString(s)]
ArrayValue(es) == [tag |-> "Array", elems |-> es]
ObjectValue(entries) == [tag |-> "Object", entries |-> entries]
Entry(k, v) == [name |-> k, val |-> v]

containsKey(obj, key) == \E e \in obj.entries : e.name = key
get(obj, key) == (CHOOSE e \in obj.entries : e.name = key).val

\* NumberValue.value().doubleValue(): magnitudes are kept in tenths.
doubleValue(numNode) == numNode.magnitude

(***************************************************************************)
(* Literal tokens of the parsed test script.                               *)
(***************************************************************************)
\* Token.getText() of a quoted string literal or key.
QuotedToken(content) == [quoted |-> content]
unquoteString(token) == token.quoted

\* A NUMBER token; getText() is the text as written.
NumberToken(t) == [tokenText |-> t]
getText(token) == token.tokenText
NumberTokens == {"1", "1.0", "2", "abc"}

\* Double.parseDouble: the magnitude in tenths, or NumberFormatException.
parseDouble(tokenText) ==
    CASE tokenText = "1" -> [ok |-> TRUE, double |-> 10]
      [] tokenText = "1.0" -> [ok |-> TRUE, double |-> 10]
      [] tokenText = "2" -> [ok |-> TRUE, double |-> 20]
      [] OTHER -> [ok |-> FALSE, double |-> 0]

\* Integer.parseInt: the integer, or NumberFormatException.
parseInt(tokenText) ==
    CASE tokenText = "1" -> [ok |-> TRUE, int |-> 1]
      [] tokenText = "2" -> [ok |-> TRUE, int |-> 2]
      [] OTHER -> [ok |-> FALSE, int |-> 0]

(***************************************************************************)
(* java.lang.String operations on character sequences.                     *)
(***************************************************************************)
Whitespace == {" ", "\t"}

isBlank(s) == \A i \in 1..Len(s) : s[i] \in Whitespace

isEmpty(s) == Len(s) = 0

lowerChar(c) ==
    CASE c = "A" -> "a"
      [] c = "B" -> "b"
      [] c = "C" -> "c"
      [] OTHER -> c

toLowerCase(s) == [i \in 1..Len(s) |-> lowerChar(s[i])]

equalsIgnoreCase(s, t) == toLowerCase(s) = toLowerCase(t)

startsWith(s, prefix) ==
    /\ Len(prefix) <= Len(s)
    /\ SubSeq(s, 1, Len(prefix)) = prefix

endsWith(s, postfix) ==
    /\ Len(postfix) <= Len(s)
    /\ SubSeq(s, Len(s) - Len(postfix) + 1, Len(s)) = postfix

\* s.startsWith(sub, i) for a zero-based offset i
occursAt(s, sub, i) ==
    /\ i >= 0
    /\ i + Len(sub) <= Len(s)
    /\ SubSeq(s, i + 1, i + Len(sub)) = sub

\* String.indexOf(sub, fromIndex): zero-based, -1 when there is none
indexOf(s, sub, fromIndex) ==
    LET hits == {i \in fromIndex..(Len(s) - Len(sub)) : occursAt(s, sub, i)}
    IN  IF hits = {} THEN -1 ELSE CHOOSE i \in hits : \A j \in hits : i <= j

contains(s, sub) == indexOf(s, sub, 0) >= 0

\* text.replaceAll("\\s+", " ")
RECURSIVE replaceAllWhitespaceRuns(_)
replaceAllWhitespaceRuns(s) ==
    IF s = <<>> THEN <<>>
    ELSE LET init == replaceAllWhitespaceRuns(SubSeq(s, 1, Len(s) - 1))
             c == s[Len(s)]
         IN  IF c \in Whitespace
             THEN IF Len(s) > 1 /\ s[Len(s) - 1] \in Whitespace
                  THEN init
                  ELSE Append(init, " ")
             ELSE Append(init, c)

\* java.util.regex.Pattern, restricted to literal characters and ".";
\* an unclosed "[" does not compile.
patternCompiles(regex) == \A i \in 1..Len(regex) : regex[i] # "["

patternMatches(regex, s) ==
    /\ Len(regex) = Len(s)
    /\ \A i \in 1..Len(s) : regex[i] = "." \/ regex[i] = s[i]

(***************************************************************************)
(* String matchers (StringMatcherContext, StringOrStringMatcherContext).   *)
(***************************************************************************)
StringIsNull == [kind |-> "StringIsNull"]
StringIsBlank == [kind |-> "StringIsBlank"]
StringIsEmpty == [kind |-> "StringIsEmpty"]
StringIsNullOrEmpty == [kind |-> "StringIsNullOrEmpty"]
StringIsNullOrBlank == [kind |-> "StringIsNullOrBlank"]
StringEqualCompressedWhitespace(s) ==
    [kind |-> "StringEqualCompressedWhitespace", matchValue |-> QuotedToken(s)]
StringEqualIgnoringCase(s) ==
    [kind |-> "StringEqualIgnoringCase", matchValue |-> QuotedToken(s)]
StringMatchesRegex(s) == [kind |-> "StringMatchesRegex", regex |-> QuotedToken(s)]
StringStartsWith(s, ci) ==
    [kind |-> "StringStartsWith", prefix |-> QuotedToken(s), caseInsensitive |-> ci]
StringEndsWith(s, ci) ==
    [kind |-> "StringEndsWith", postfix |-> QuotedToken(s), caseInsensitive |-> ci]
StringContains(s, ci) ==
    [kind |-> "StringContains", text |-> QuotedToken(s), caseInsensitive |-> ci]
StringContainsInOrder(ss) ==
    [kind |-> "StringContainsInOrder",
     substrings |-> [i \in 1..Len(ss) |-> QuotedToken(ss[i])]]
StringWithLength(t) == [kind |-> "StringWithLength", length |-> NumberToken(t)]
PlainStringMatcher(s) == [kind |-> "PlainStringMatcher", text |-> QuotedToken(s)]
ComplexStringMatcher(sm) == [kind |-> "ComplexStringMatcher", stringMatcher |-> sm]

\* the CASE_INSENSITIVE token of starts-with / ends-with / contains
CaseInsensitiveToken == [flag |-> "case-insensitive"]

\* a node of a class outside the grammar's alternatives
InjectedNode == [kind |-> "Injected"]

\* mutant: every substring is searched from the start of the text
RECURSIVE containsInOrderFromStart(_, _, _, _)
containsInOrderFromStart(text, substrings, i, currentPos) ==
    IF i > Len(substrings) THEN "true"
    ELSE IF text = JavaNull THEN "NullPointerException"
    ELSE LET substring == unquoteString(substrings[i])
             index == indexOf(text.chars, substring, 0)
         IN  IF index < 0 THEN "false"
             ELSE containsInOrderFromStart(text, substrings, i + 1, index + Len(substring))

\* The loop of the StringContainsInOrder branch, from the i-th substring on.
RECURSIVE containsInOrderFrom(_, _, _, _)
containsInOrderFrom(text, substrings, i, currentPos) ==
    IF i > Len(substrings) THEN "true"
    ELSE IF text = JavaNull THEN "NullPointerException"
    ELSE LET substring == unquoteString(substrings[i])
             index == indexOf(text.chars, substring, currentPos)
         IN  IF index < 0 THEN "false"
             ELSE containsInOrderFrom(text, substrings, i + 1, index + Len(substring))

matchComplexString(text, m) ==
    CASE m.kind = "StringIsNull" -> Bool2Outcome(text = JavaNull)
      [] m.kind = "StringIsBlank" -> Bool2Outcome(text # JavaNull /\ isBlank(text.chars))
      [] m.kind = "StringIsEmpty" -> Bool2Outcome(text # JavaNull /\ isEmpty(text.chars))
      [] m.kind = "StringIsNullOrEmpty" ->
            Bool2Outcome(text = JavaNull \/ isEmpty(text.chars))
      [] m.kind = "StringIsNullOrBlank" ->
            Bool2Outcome(text = JavaNull \/ isBlank(text.chars))
      [] m.kind = "StringEqualCompressedWhitespace" ->
            LET expected == unquoteString(m.matchValue)
            IN  IF text = JavaNull THEN "NullPointerException"
                ELSE Bool2Outcome(replaceAllWhitespaceRuns(text.chars) = expected)
      [] m.kind = "StringEqualIgnoringCase" ->
            LET expected == unquoteString(m.matchValue)
            IN  IF text = JavaNull THEN "NullPointerException"
                ELSE Bool2Outcome(equalsIgnoreCase(text.chars, expected))
      [] m.kind = "StringMatchesRegex" ->
            LET regex == unquoteString(m.regex)
            IN  IF ~patternCompiles(regex) THEN "PatternSyntaxException"
                ELSE IF text = JavaNull THEN "NullPointerException"
                ELSE Bool2Outcome(patternMatches(regex, text.chars))
      [] m.kind = "StringStartsWith" ->
            LET prefix == unquoteString(m.prefix)
            IN  IF text = JavaNull THEN "NullPointerException"
                ELSE IF m.caseInsensitive # JavaNull
                     THEN Bool2Outcome(startsWith(toLowerCase(text.chars), toLowerCase(prefix)))
                     ELSE Bool2Outcome(startsWith(text.chars, prefix))
      [] m.kind = "StringEndsWith" ->
            LET postfix == unquoteString(m.postfix)
            IN  IF text = JavaNull THEN "NullPointerException"
                ELSE IF m.caseInsensitive # JavaNull
                     THEN Bool2Outcome(endsWith(toLowerCase(text.chars), toLowerCase(postfix)))
                     ELSE Bool2Outcome(endsWith(text.chars, postfix))
      [] m.kind = "StringContains" ->
            LET substring == unquoteString(m.text)
            IN  IF text = JavaNull THEN "NullPointerException"
                ELSE IF m.caseInsensitive # JavaNull
                     THEN Bool2Outcome(contains(toLowerCase(text.chars), toLowerCase(substring)))
                     ELSE Bool2Outcome(contains(text.chars, substring))
      [] m.kind = "StringContainsInOrder" ->
            containsInOrderFrom(text, m.substrings, 1, 0)
      [] m.kind = "StringWithLength" ->
            LET expected == parseInt(getText(m.length))
            IN  IF ~expected.ok THEN "NumberFormatException"
                ELSE IF text = JavaNull THEN "NullPointerException"
                ELSE Bool2Outcome(Len(text.chars) = expected.int)
      [] OTHER -> "false"

matchString(text, m) ==
    CASE m.kind = "PlainStringMatcher" ->
            LET expected == unquoteString(m.text)
            IN  Bool2Outcome(text # JavaNull /\ expected = text.chars)
      [] m.kind = "ComplexStringMatcher" -> matchComplexString(text, m.stringMatcher)
      [] OTHER -> "false"

(***************************************************************************)
(* Node matchers (NodeMatcherContext).                                     *)
(***************************************************************************)
NullMatcher == [kind |-> "NullMatcher"]
TextMatcher(sosm) == [kind |-> "TextMatcher", stringOrStringMatcher |-> sosm]
NumberMatcher(token) == [kind |-> "NumberMatcher", number |-> token]
BooleanMatcher(literal) == [kind |-> "BooleanMatcher", booleanLiteral |-> literal]
ArrayMatcher(body) == [kind |-> "ArrayMatcher", arrayMatcherBody |-> body]
ObjectMatcher(body) == [kind |-> "ObjectMatcher", objectMatcherBody |-> body]
TrueLiteral == [kind |-> "TrueLiteral"]
FalseLiteral == [kind |-> "FalseLiteral"]
ArrayMatcherBody(ms) == [matchers |-> ms]
ObjectMatcherBody(members) == [members |-> members]
Member(k, m) == [key |-> QuotedToken(k), matcher |-> m]

\* node instanceof XValue (false for a null reference)
instanceOf(node, tag) == node # JavaNull /\ node.tag = tag

RECURSIVE matchNode(_, _)
RECURSIVE matchArrayFrom(_, _, _)
RECURSIVE matchObjectFrom(_, _, _)

\* the for loop of matchArrayBody from index i (one-based here)
matchArrayFrom(array, matchers, i) ==
    IF i > Len(matchers) THEN "true"
    ELSE LET r == matchNode(array.elems[i], matchers[i])
         IN  IF r = "true" THEN matchArrayFrom(array, matchers, i + 1) ELSE r

\* mutant: the size test only rejects arrays that are too short
matchArrayBodyPrefix(array, body) ==
    LET matchers == body.matchers
    IN  IF Len(array.elems) < Len(matchers) THEN "false"
        ELSE matchArrayFrom(array, matchers, 1)

matchArrayBody(array, body) ==
    LET matchers == body.matchers
    IN  IF Len(array.elems) # Len(matchers) THEN "false"
        ELSE matchArrayFrom(array, matchers, 1)

\* the for loop of matchObjectBody from the i-th member
matchObjectFrom(obj, members, i) ==
    IF i > Len(members) THEN "true"
    ELSE LET key == unquoteString(members[i].key)
         IN  IF ~containsKey(obj, key) THEN "false"
             ELSE LET r == matchNode(get(obj, key), members[i].matcher)
                  IN  IF r = "true" THEN matchObjectFrom(obj, members, i + 1) ELSE r

\* mutant: an object with undeclared keys is rejected
matchObjectBodyExact(obj, body) ==
    IF \E e \in obj.entries :
          \A i \in 1..Len(body.members) : unquoteString(body.members[i].key) # e.name
    THEN "false"
    ELSE matchObjectFrom(obj, body.members, 1)

matchObjectBody(obj, body) == matchObjectFrom(obj, body.members, 1)

\* mutant: a null reference is dereferenced as a non-match
matchNullMatcherNoAbsent(node) == Bool2Outcome(instanceOf(node, "Null"))

\* the NullMatcherContext branch of matchNode
matchNullMatcher(node) == Bool2Outcome(node = JavaNull \/ instanceOf(node, "Null"))

\* mutant: the node is dereferenced before its type is tested, as
\* node.isTextual() did
matchTextMatcherDereference(node, m) ==
    IF node = JavaNull THEN "NullPointerException"
    ELSE IF node.tag # "Text" THEN "false"
    ELSE IF m.stringOrStringMatcher = JavaNull THEN "true"
    ELSE matchString(node.value, m.stringOrStringMatcher)

\* the TextMatcherContext branch
matchTextMatcher(node, m) ==
    IF ~instanceOf(node, "Text") THEN "false"
    ELSE IF m.stringOrStringMatcher = JavaNull THEN "true"
    ELSE matchString(node.value, m.stringOrStringMatcher)

\* mutant: a literal that does not parse is treated as a non-match
matchNumberMatcherLenient(node, m) ==
    IF ~instanceOf(node, "Number") THEN "false"
    ELSE IF m.number = JavaNull THEN "true"
    ELSE LET parsed == parseDouble(getText(m.number))
         IN  IF ~parsed.ok THEN "false"
             ELSE Bool2Outcome(doubleValue(node) = parsed.double)

\* the NumberMatcherContext branch
matchNumberMatcher(node, m) ==
    IF ~instanceOf(node, "Number") THEN "false"
    ELSE IF m.number = JavaNull THEN "true"
    ELSE LET parsed == parseDouble(getText(m.number))
         IN  IF ~parsed.ok THEN "NumberFormatException"
             ELSE Bool2Outcome(doubleValue(node) = parsed.double)

\* the BooleanMatcherContext branch
matchBooleanMatcher(node, m) ==
    IF ~instanceOf(node, "Boolean") THEN "false"
    ELSE IF m.booleanLiteral = JavaNull THEN "true"
    ELSE LET expected == (m.booleanLiteral.kind = "TrueLiteral")
         IN  Bool2Outcome(node.bool = expected)

\* the ArrayMatcherContext branch
matchArrayMatcher(node, m) ==
    IF ~instanceOf(node, "Array") THEN "false"
    ELSE IF m.arrayMatcherBody = JavaNull THEN "true"
    ELSE matchArrayBody(node, m.arrayMatcherBody)

\* the ObjectMatcherContext branch
matchObjectMatcher(node, m) ==
    IF ~instanceOf(node, "Object") THEN "false"
    ELSE IF m.objectMatcherBody = JavaNull THEN "true"
    ELSE matchObjectBody(node, m.objectMatcherBody)

matchNode(node, m) ==
    CASE m.kind = "NullMatcher" -> matchNullMatcher(node)
      [] m.kind = "TextMatcher" -> matchTextMatcher(node, m)
      [] m.kind = "NumberMatcher" -> matchNumberMatcher(node, m)
      [] m.kind = "BooleanMatcher" -> matchBooleanMatcher(node, m)
      [] m.kind = "ArrayMatcher" -> matchArrayMatcher(node, m)
      [] m.kind = "ObjectMatcher" -> matchObjectMatcher(node, m)
      [] OTHER -> "false"

(***************************************************************************)
(* Default-object and extended-object matchers.                            *)
(***************************************************************************)
\* a value literal of the script; ValueConverter.convert builds its Value
ValueLiteral(kind, body) == [literal |-> kind, body |-> body]

RECURSIVE convert(_)
convert(lit) ==
    CASE lit.literal = "null" -> NullValue
      [] lit.literal = "undefined" -> UndefinedValue
      [] lit.literal = "true" -> BooleanValue(TRUE)
      [] lit.literal = "false" -> BooleanValue(FALSE)
      [] lit.literal = "number" -> NumberValue(parseDouble(getText(lit.body)).double)
      [] lit.literal = "string" -> TextValue(unquoteString(lit.body))
      [] lit.literal = "array" ->
            ArrayValue([i \in 1..Len(lit.body.items) |-> convert(lit.body.items[i])])
      [] lit.literal = "object" ->
            ObjectValue({Entry(unquoteString(p.key), convert(p.item)) : p \in lit.body.pairs})

ExactMatchObjectMatcher(lit) == [kind |-> "ExactMatchObjectMatcher", equalTo |-> lit]
MatchingObjectMatcher(m) == [kind |-> "MatchingObjectMatcher", nodeMatcher |-> m]
DefaultExtendedMatcher(dm) == [kind |-> "DefaultExtendedMatcher", defaultObjectMatcher |-> dm]
KeyValueObjectMatcher(k, m) ==
    [kind |-> "KeyValueObjectMatcher", key |-> QuotedToken(k), matcher |-> m]

matchDefaultObject(node, m) ==
    CASE m.kind = "ExactMatchObjectMatcher" ->
            LET expected == convert(m.equalTo)
            IN  Bool2Outcome(expected = node)
      [] m.kind = "MatchingObjectMatcher" -> matchNode(node, m.nodeMatcher)
      [] OTHER -> "false"

\* the lambda of the key-value branch of matchExtendedConstraint
keyValueTest(c, key, nested) ==
    IF ~instanceOf(c, "Object") THEN "false"
    ELSE IF ~containsKey(c, key) THEN "false"
    ELSE IF nested = JavaNull THEN "true"
    ELSE matchNode(get(c, key), nested)

\* mutant: Stream.allMatch in place of anyMatch
RECURSIVE allMatchFrom(_, _, _)
allMatchFrom(constraints, extendedMatch, i) ==
    IF i > Len(constraints) THEN "true"
    ELSE LET c == constraints[i]
             r == IF extendedMatch.kind = "DefaultExtendedMatcher"
                  THEN matchDefaultObject(c, extendedMatch.defaultObjectMatcher)
                  ELSE keyValueTest(c, unquoteString(extendedMatch.key),
                                    extendedMatch.matcher)
         IN  IF r = "true" THEN allMatchFrom(constraints, extendedMatch, i + 1) ELSE r

\* Stream.anyMatch from the i-th element: the first true ends the search,
\* an exception of the lambda propagates.
RECURSIVE anyMatchFrom(_, _, _)
anyMatchFrom(constraints, extendedMatch, i) ==
    IF i > Len(constraints) THEN "false"
    ELSE LET c == constraints[i]
             r == IF extendedMatch.kind = "DefaultExtendedMatcher"
                  THEN matchDefaultObject(c, extendedMatch.defaultObjectMatcher)
                  ELSE keyValueTest(c, unquoteString(extendedMatch.key),
                                    extendedMatch.matcher)
         IN  IF r = "false" THEN anyMatchFrom(constraints, extendedMatch, i + 1) ELSE r

matchExtendedConstraint(constraints, extendedMatch) ==
    CASE extendedMatch.kind = "DefaultExtendedMatcher" ->
            anyMatchFrom(constraints, extendedMatch, 1)
      [] extendedMatch.kind = "KeyValueObjectMatcher" ->
            anyMatchFrom(constraints, extendedMatch, 1)
      [] OTHER -> "false"

(***************************************************************************)
(* Authorization decisions and decision matcher clauses.                   *)
(***************************************************************************)
\* a java.util.List reference that is not null
JList(items) == [items |-> items]

AuthorizationDecision(d, obligations, advice, resource) ==
    [decision |-> d, obligations |-> obligations, advice |-> advice,
     resource |-> resource]

AnyDecisionMatcher == [kind |-> "AnyDecisionMatcher"]
IsDecisionMatcher(tokenText) == [kind |-> "IsDecisionMatcher", decision |-> tokenText]
HasObligationOrAdviceMatcher(typeText, extended) ==
    [kind |-> "HasObligationOrAdviceMatcher", matcherType |-> typeText,
     extendedMatcher |-> extended]
HasResourceMatcher(dm) == [kind |-> "HasResourceMatcher", defaultMatcher |-> dm]

parseDecisionType(tokenText) ==
    CASE tokenText = "permit" -> "PERMIT"
      [] tokenText = "deny" -> "DENY"
      [] tokenText = "indeterminate" -> "INDETERMINATE"
      [] tokenText = "notapplicable" -> "NOT_APPLICABLE"

(***************************************************************************)
(* Predicates are kept as data; test applies one to a decision.            *)
(***************************************************************************)
NonNullPredicate == [pred |-> "nonNull"]
IsPredicate(expected) == [pred |-> "is", expectedDecision |-> expected]
ConstraintPredicate(isObligation, extendedMatch) ==
    [pred |-> "hasObligationOrAdvice", isObligation |-> isObligation,
     extendedMatch |-> extendedMatch]
ResourcePredicate(defaultMatcher) ==
    [pred |-> "hasResource", defaultMatcher |-> defaultMatcher]
AndPredicate(p, q) == [pred |-> "and", first |-> p, other |-> q]

Built(p) == [threw |-> FALSE, predicate |-> p]
Threw == [threw |-> TRUE, predicate |-> JavaNull]

\* mutant: the obligations are read whatever the matcher type is
testConstraintsObligationsOnly(p, decision) ==
    IF decision = JavaNull THEN "false"
    ELSE LET constraints == decision.obligations
         IN  IF constraints = JavaNull THEN "false"
             ELSE IF constraints.items = <<>> THEN "false"
             ELSE IF p.extendedMatch = JavaNull THEN "true"
             ELSE matchExtendedConstraint(constraints.items, p.extendedMatch)

\* the lambda of the HasObligationOrAdviceMatcherContext case
testConstraints(p, decision) ==
    IF decision = JavaNull THEN "false"
    ELSE LET constraints == IF p.isObligation THEN decision.obligations
                            ELSE decision.advice
         IN  IF constraints = JavaNull THEN "false"
             ELSE IF constraints.items = <<>> THEN "false"
             ELSE IF p.extendedMatch = JavaNull THEN "true"
             ELSE matchExtendedConstraint(constraints.items, p.extendedMatch)

\* mutant: an UndefinedValue resource counts as present
testResourceNonNullOnly(p, decision) ==
    IF decision = JavaNull THEN "false"
    ELSE LET resource == decision.resource
         IN  IF p.defaultMatcher = JavaNull
             THEN Bool2Outcome(resource # JavaNull)
             ELSE IF resource = JavaNull
                  THEN "false"
                  ELSE matchDefaultObject(resource, p.defaultMatcher)

\* the lambda of the HasResourceMatcherContext case
testResource(p, decision) ==
    IF decision = JavaNull THEN "false"
    ELSE LET resource == decision.resource
         IN  IF p.defaultMatcher = JavaNull
             THEN Bool2Outcome(resource # JavaNull /\ ~instanceOf(resource, "Undefined"))
             ELSE IF resource = JavaNull \/ instanceOf(resource, "Undefined")
                  THEN "false"
                  ELSE matchDefaultObject(resource, p.defaultMatcher)

\* Predicate.test; Predicate.and evaluates other only when first is true
RECURSIVE test(_, _)
test(p, decision) ==
    CASE p.pred = "nonNull" -> Bool2Outcome(decision # JavaNull)
      [] p.pred = "is" ->
            Bool2Outcome(decision # JavaNull /\ decision.decision = p.expectedDecision)
      [] p.pred = "hasObligationOrAdvice" -> testConstraints(p, decision)
      [] p.pred = "hasResource" -> testResource(p, decision)
      [] p.pred = "and" ->
            LET r == test(p.first, decision)
            IN  IF r = "true" THEN test(p.other, decision) ELSE r

buildSingleMatcherPredicate(ctx) ==
    CASE ctx.kind = "AnyDecisionMatcher" -> Built(NonNullPredicate)
      [] ctx.kind = "IsDecisionMatcher" ->
            Built(IsPredicate(parseDecisionType(ctx.decision)))
      [] ctx.kind = "HasObligationOrAdviceMatcher" ->
            Built(ConstraintPredicate(ctx.matcherType \in {"obligation", "OBLIGATION"},
                                      ctx.extendedMatcher))
      [] ctx.kind = "HasResourceMatcher" -> Built(ResourcePredicate(ctx.defaultMatcher))
      [] OTHER -> Threw

\* mutant: each clause's predicate replaces the combined one
RECURSIVE combineFromOverwrite(_, _, _)
combineFromOverwrite(combined, matchers, i) ==
    IF i > Len(matchers) THEN Built(combined)
    ELSE LET single == buildSingleMatcherPredicate(matchers[i])
         IN  IF single.threw THEN Threw
             ELSE combineFromOverwrite(single.predicate, matchers, i + 1)

\* the for loop of buildCombinedMatcherPredicate from the i-th matcher
RECURSIVE combineFrom(_, _, _)
combineFrom(combined, matchers, i) ==
    IF i > Len(matchers) THEN Built(combined)
    ELSE LET single == buildSingleMatcherPredicate(matchers[i])
         IN  IF single.threw THEN Threw
             ELSE combineFrom(AndPredicate(combined, single.predicate), matchers, i + 1)

buildCombinedMatcherPredicate(matchers) == combineFrom(NonNullPredicate, matchers, 1)

(***************************************************************************)
(* Expectations and the decision result they are executed against.         *)
(***************************************************************************)
SingleExpectation(tokenText, clauses) ==
    [kind |-> "SingleExpectation",
     authorizationDecision |-> [decision |-> tokenText, clauses |-> clauses]]
MatcherExpectation(ms) == [kind |-> "MatcherExpectation", matchers |-> ms]
StreamExpectation(steps) == [kind |-> "StreamExpectation", expectStep |-> steps]
NextWithMatcherStep(ms) == [kind |-> "NextWithMatcherStep", matchers |-> ms]

\* SaplTestFixture.DecisionResult: the decisions the evaluation emits, how
\* many of them the checks issued so far have consumed, and those checks.
NewDecisionResult(stream) == [stream |-> stream, cursor |-> 0, checks |-> <<>>]

\* Each call issues one check, which consumes the next decision of the stream
\* and fails when there is none.
expectDecisionMatches(dr, p) ==
    LET position == dr.cursor + 1
        result == IF position > Len(dr.stream) THEN "false"
                  ELSE test(p, dr.stream[position])
    IN  [dr EXCEPT !.cursor = position,
                   !.checks = Append(@, [position |-> position, result |-> result])]

\* expect permit|deny|... [with obligations ...] [with resource ...]: one Is
\* clause conjoined with the clauses of the with-parts.
buildDecisionMatcher(authorizationDecision) ==
    buildCombinedMatcherPredicate(
        <<IsDecisionMatcher(authorizationDecision.decision)>>
            \o authorizationDecision.clauses).predicate

Returned(dr) == [exception |-> "none", dr |-> dr]
Thrown(exception, dr) == [exception |-> exception, dr |-> dr]

\* the NextWithMatcherStepContext branch of executeExpectStep
executeExpectStep(dr, step) ==
    LET combinedPredicate == buildCombinedMatcherPredicate(step.matchers)
    IN  IF combinedPredicate.threw THEN Thrown("IllegalArgumentException", dr)
        ELSE Returned(expectDecisionMatches(dr, combinedPredicate.predicate))

\* the for loop of the StreamExpectationContext branch from the i-th step
RECURSIVE executeStepsFrom(_, _, _)
executeStepsFrom(dr, steps, i) ==
    IF i > Len(steps) THEN Returned(dr)
    ELSE LET r == executeExpectStep(dr, steps[i])
         IN  IF r.exception # "none" THEN r
             ELSE executeStepsFrom(r.dr, steps, i + 1)

\* mutant: every clause of a matcher expectation is issued as a check of its
\* own, as in the loop this method had before
RECURSIVE applyEachFrom(_, _, _)
applyEachFrom(dr, matchers, i) ==
    IF i > Len(matchers) THEN Returned(dr)
    ELSE LET single == buildSingleMatcherPredicate(matchers[i])
         IN  IF single.threw THEN Thrown("IllegalArgumentException", dr)
             ELSE applyEachFrom(expectDecisionMatches(dr, single.predicate),
                                matchers, i + 1)

executeExpectationPerClause(dr, expectation) ==
    CASE expectation.kind = "SingleExpectation" ->
            LET m == buildDecisionMatcher(expectation.authorizationDecision)
            IN  Returned(expectDecisionMatches(dr, m))
      [] expectation.kind = "MatcherExpectation" ->
            applyEachFrom(dr, expectation.matchers, 1)
      [] expectation.kind = "StreamExpectation" ->
            executeStepsFrom(dr, expectation.expectStep, 1)
      [] OTHER -> Returned(dr)

executeExpectation(dr, expectation) ==
    CASE expectation.kind = "SingleExpectation" ->
            LET m == buildDecisionMatcher(expectation.authorizationDecision)
            IN  Returned(expectDecisionMatches(dr, m))
      [] expectation.kind = "MatcherExpectation" ->
            LET combinedPredicate == buildCombinedMatcherPredicate(expectation.matchers)
            IN  IF combinedPredicate.threw THEN Thrown("IllegalArgumentException", dr)
                ELSE Returned(expectDecisionMatches(dr, combinedPredicate.predicate))
      [] expectation.kind = "StreamExpectation" ->
            executeStepsFrom(dr, expectation.expectStep, 1)
      [] OTHER -> Returned(dr)

(***************************************************************************)
(* Inputs.                                                                 *)
(***************************************************************************)
KeyA == <<"a">>
KeyB == <<"b">>
KeyC == <<"c">>
Keys == {KeyA, KeyB, KeyC}

Scalars ==
    {UndefinedValue, NullValue, BooleanValue(TRUE), BooleanValue(FALSE),
     NumberValue(10), NumberValue(20), TextValue(<<>>), TextValue(<<"a">>),
     TextValue(<<" ">>)}

ElementValues ==
    {NullValue, NumberValue(10), NumberValue(20), TextValue(<<"a">>),
     ArrayValue(<<NumberValue(10)>>), ArrayValue(<<>>)}

MemberValues == {NumberValue(10), NumberValue(20), ArrayValue(<<>>)}

ArrayValues == {ArrayValue(es) : es \in SeqsUpTo(ElementValues, MaxArrayLen)}

\* objects: every assignment of member values to a subset of the keys
ObjectValues ==
    UNION {{ObjectValue({Entry(k, f[k]) : k \in K}) : f \in [K -> MemberValues]}
           : K \in SUBSET Keys}

NodeValues == Scalars \cup ArrayValues \cup ObjectValues

LeafMatchers ==
    {NullMatcher,
     TextMatcher(JavaNull), TextMatcher(PlainStringMatcher(<<"a">>)),
     TextMatcher(ComplexStringMatcher(StringIsEmpty)),
     TextMatcher(ComplexStringMatcher(StringIsNull)),
     TextMatcher(ComplexStringMatcher(StringIsBlank)),
     TextMatcher(ComplexStringMatcher(StringIsNullOrEmpty)),
     TextMatcher(ComplexStringMatcher(StringIsNullOrBlank)),
     TextMatcher(ComplexStringMatcher(StringWithLength("abc"))),
     TextMatcher(ComplexStringMatcher(StringWithLength("1.0"))),
     TextMatcher(ComplexStringMatcher(StringWithLength("1"))),
     NumberMatcher(JavaNull), NumberMatcher(NumberToken("1")),
     NumberMatcher(NumberToken("1.0")), NumberMatcher(NumberToken("2")),
     NumberMatcher(NumberToken("abc")),
     BooleanMatcher(JavaNull), BooleanMatcher(TrueLiteral), BooleanMatcher(FalseLiteral),
     ArrayMatcher(JavaNull), ObjectMatcher(JavaNull),
     InjectedNode, TextMatcher(InjectedNode),
     TextMatcher(ComplexStringMatcher(InjectedNode))}

ElementMatchers ==
    {NullMatcher, NumberMatcher(JavaNull), NumberMatcher(NumberToken("1")),
     NumberMatcher(NumberToken("abc")),
     ArrayMatcher(ArrayMatcherBody(<<NumberMatcher(NumberToken("1"))>>))}

MemberMatchers ==
    {Member(k, m) : k \in {KeyA, KeyB},
                    m \in {NumberMatcher(JavaNull), NumberMatcher(NumberToken("1")),
                           NumberMatcher(NumberToken("abc"))}}

ArrayMatchers ==
    {ArrayMatcher(ArrayMatcherBody(ms)) : ms \in SeqsUpTo(ElementMatchers, MaxMatchers)}

ObjectMatchers ==
    {ObjectMatcher(ObjectMatcherBody(ms)) : ms \in SeqsUpTo(MemberMatchers, MaxMembers)}

NodeMatchers == LeafMatchers \cup ArrayMatchers \cup ObjectMatchers

(***************************************************************************)
(* SpecNode: one call of matchNode.                                        *)
(***************************************************************************)
InitNode ==
    /\ pc = "call"
    /\ subject \in NodeValues \cup {JavaNull}
    /\ matcher \in NodeMatchers
    /\ predicate = JavaNull
    /\ outcome = "none"
    /\ decisionResult = JavaNull

MatchNode ==
    /\ pc = "call"
    /\ outcome' = matchNode(subject, matcher)
    /\ pc' = "done"
    /\ UNCHANGED <<subject, matcher, predicate, decisionResult>>

NextNode == MatchNode

SpecNode == InitNode /\ [][NextNode]_vars

(***************************************************************************)
(* Properties of matchNode, checked under SpecNode.                        *)
(***************************************************************************)
NodeMatcherKinds ==
    {"NullMatcher", "TextMatcher", "NumberMatcher", "BooleanMatcher",
     "ArrayMatcher", "ObjectMatcher"}

\* C3: a matcher node outside the closed variant set that reaches the
\* matchNode dispatcher makes the call fail with an exception; it never
\* returns false.
C3_UnknownVariantFails ==
    (pc = "done" /\ matcher.kind \notin NodeMatcherKinds) => IsException(outcome)

\* the tag of the values a coarse matcher targets
TargetTag(m) ==
    CASE m.kind = "NullMatcher" -> "Null"
      [] m.kind = "TextMatcher" -> "Text"
      [] m.kind = "NumberMatcher" -> "Number"
      [] m.kind = "BooleanMatcher" -> "Boolean"
      [] m.kind = "ArrayMatcher" -> "Array"
      [] m.kind = "ObjectMatcher" -> "Object"

CoarseMatchers ==
    {NullMatcher, TextMatcher(JavaNull), NumberMatcher(JavaNull),
     BooleanMatcher(JavaNull), ArrayMatcher(JavaNull), ObjectMatcher(JavaNull)}

\* C7: for a coarse matcher (no nested constraint) matchNode is true exactly
\* when the value's tag is the matcher's target tag; NullMatcher also accepts
\* an absent value reference, and nothing accepts Undefined.
C7_CoarseMatchIsTagEquality ==
    (pc = "done" /\ matcher \in CoarseMatchers) =>
        /\ outcome \in {"true", "false"}
        /\ (outcome = "true") <=>
               IF subject = JavaNull THEN matcher = NullMatcher
               ELSE subject.tag = TargetTag(matcher)
        /\ (subject = UndefinedValue => outcome = "false")

C7_Witness ==
    /\ pc = "done"
    /\ matcher = NullMatcher
    /\ subject = JavaNull
    /\ outcome = "true"

IsArrayCase ==
    /\ pc = "done"
    /\ matcher.kind = "ArrayMatcher"
    /\ matcher.arrayMatcherBody # JavaNull
    /\ instanceOf(subject, "Array")

\* C4: an ArrayMatcher with a body matches an array exactly when the element
\* count equals the number of element matchers and every element satisfies
\* the matcher at its position; a different length is false whatever the
\* element matchers are.
C4_ArrayExactArity ==
    IsArrayCase =>
        LET matchers == matcher.arrayMatcherBody.matchers
            elems == subject.elems
        IN  /\ (outcome = "true") <=>
                   /\ Len(elems) = Len(matchers)
                   /\ \A i \in 1..Len(matchers) : matchNode(elems[i], matchers[i]) = "true"
            /\ (Len(elems) # Len(matchers) => outcome = "false")

\* a two-element array whose first element satisfies the only element
\* matcher does not match
C4_Witness ==
    /\ IsArrayCase
    /\ Len(subject.elems) = 2
    /\ Len(matcher.arrayMatcherBody.matchers) = 1
    /\ matchNode(subject.elems[1], matcher.arrayMatcherBody.matchers[1]) = "true"
    /\ outcome = "false"

IsObjectCase ==
    /\ pc = "done"
    /\ matcher.kind = "ObjectMatcher"
    /\ matcher.objectMatcherBody # JavaNull
    /\ instanceOf(subject, "Object")

DeclaredKeys(body) == {unquoteString(body.members[i].key) : i \in 1..Len(body.members)}

\* C5: an ObjectMatcher with a body matches an object exactly when every
\* declared key is present and its value satisfies the member's matcher;
\* adding a key the matcher does not declare to an object that matched
\* leaves the match true.
C5_ObjectSubsetPermissive ==
    IsObjectCase =>
        LET members == matcher.objectMatcherBody.members
            declared == DeclaredKeys(matcher.objectMatcherBody)
            present == {e.name : e \in subject.entries}
        IN  /\ (outcome = "true") <=>
                   \A i \in 1..Len(members) :
                       /\ containsKey(subject, unquoteString(members[i].key))
                       /\ matchNode(get(subject, unquoteString(members[i].key)),
                                    members[i].matcher) = "true"
            /\ outcome = "true" =>
                   \A k \in Keys \ (declared \cup present), v \in Scalars :
                       matchNode(ObjectValue(subject.entries \cup {Entry(k, v)}),
                                 matcher) = "true"

\* an object with an undeclared key matches
C5_Witness ==
    /\ IsObjectCase
    /\ Len(matcher.objectMatcherBody.members) >= 1
    /\ \E e \in subject.entries : e.name \notin DeclaredKeys(matcher.objectMatcherBody)
    /\ outcome = "true"

(***************************************************************************)
(* SpecString: one call of matchString on the content of a TextValue.      *)
(***************************************************************************)
Alphabet == {"a", "b"}

ExampleText == <<"a", "b", "c", "X", "d", "e", "f", "X", "g", "h", "i">>
ExampleAbc == <<"a", "b", "c">>
ExampleGhi == <<"g", "h", "i">>

Texts ==
    SeqsUpTo(Alphabet, MaxTextLen)
        \cup {<<" ">>, <<"A">>, <<"a", " ", "\t", "b">>, <<"a", " ", "b">>, ExampleText}

Substrings == SeqsUpTo(Alphabet, 2)

Operands == {<<>>, <<"a">>, <<"A">>, <<"a", "b">>, <<"a", " ", "b">>, <<".">>, <<"[">>}

CaseFlags == {JavaNull, CaseInsensitiveToken}

StringMatchers ==
    {StringIsNull, StringIsBlank, StringIsEmpty, StringIsNullOrEmpty,
     StringIsNullOrBlank, InjectedNode}
        \cup {StringEqualCompressedWhitespace(x) : x \in Operands}
        \cup {StringEqualIgnoringCase(x) : x \in Operands}
        \cup {StringMatchesRegex(x) : x \in Operands}
        \cup {StringStartsWith(x, ci) : x \in Operands, ci \in CaseFlags}
        \cup {StringEndsWith(x, ci) : x \in Operands, ci \in CaseFlags}
        \cup {StringContains(x, ci) : x \in Operands, ci \in CaseFlags}
        \cup {StringContainsInOrder(ss) : ss \in SeqsUpTo(Substrings, MaxSubstrings)}
        \cup {StringContainsInOrder(<<ExampleAbc, ExampleGhi>>),
              StringContainsInOrder(<<ExampleGhi, ExampleAbc>>)}
        \cup {StringWithLength(t) : t \in NumberTokens}

StringOrStringMatchers ==
    {PlainStringMatcher(x) : x \in Operands}
        \cup {ComplexStringMatcher(sm) : sm \in StringMatchers}
        \cup {InjectedNode}

InitString ==
    /\ pc = "call"
    /\ subject \in {JString(t) : t \in Texts}
    /\ matcher \in StringOrStringMatchers
    /\ predicate = JavaNull
    /\ outcome = "none"
    /\ decisionResult = JavaNull

MatchString ==
    /\ pc = "call"
    /\ outcome' = matchString(subject, matcher)
    /\ pc' = "done"
    /\ UNCHANGED <<subject, matcher, predicate, decisionResult>>

NextString == MatchString

SpecString == InitString /\ [][NextString]_vars

IsInOrderCase ==
    /\ pc = "done"
    /\ matcher.kind = "ComplexStringMatcher"
    /\ matcher.stringMatcher.kind = "StringContainsInOrder"

\* the substrings occur in the text in list order at non-overlapping
\* zero-based positions
OccurInOrder(text, subs) ==
    \E pos \in [1..Len(subs) -> 0..Len(text)] :
        \A k \in 1..Len(subs) :
            /\ occursAt(text, subs[k], pos[k])
            /\ k > 1 => pos[k] >= pos[k - 1] + Len(subs[k - 1])

\* C8: contains-substrings-in-order is true exactly when the substrings
\* occur in the text in list order at non-overlapping positions, false
\* otherwise; "abcXdefXghi" with ["abc","ghi"] is true and with
\* ["ghi","abc"] is false.
C8_SubstringsInOrder ==
    IsInOrderCase =>
        LET tokens == matcher.stringMatcher.substrings
            subs == [k \in 1..Len(tokens) |-> unquoteString(tokens[k])]
        IN  /\ outcome = Bool2Outcome(OccurInOrder(subject.chars, subs))
            /\ (subject.chars = ExampleText /\ subs = <<ExampleAbc, ExampleGhi>>)
                   => outcome = "true"
            /\ (subject.chars = ExampleText /\ subs = <<ExampleGhi, ExampleAbc>>)
                   => outcome = "false"

C8_Witness ==
    /\ IsInOrderCase
    /\ subject.chars = ExampleText
    /\ matcher.stringMatcher = StringContainsInOrder(<<ExampleGhi, ExampleAbc>>)
    /\ outcome = "false"

(***************************************************************************)
(* SpecExtended: one call of matchExtendedConstraint.                      *)
(***************************************************************************)
ConstraintValues ==
    {NullValue, NumberValue(10), TextValue(<<"a">>), ObjectValue({}),
     ObjectValue({Entry(KeyA, NumberValue(10))}),
     ObjectValue({Entry(KeyA, NumberValue(20))}),
     ObjectValue({Entry(KeyB, NumberValue(10))})}

NumberLiteral(t) == ValueLiteral("number", NumberToken(t))
StringLiteral(x) == ValueLiteral("string", QuotedToken(x))
ArrayLiteral(items) == ValueLiteral("array", [items |-> items])
ObjectLiteral(pairs) == ValueLiteral("object", [pairs |-> pairs])
Pair(k, item) == [key |-> QuotedToken(k), item |-> item]

Literals ==
    {ValueLiteral("null", JavaNull), ValueLiteral("true", JavaNull),
     NumberLiteral("1"), NumberLiteral("1.0"), StringLiteral(<<"a">>),
     ArrayLiteral(<<NumberLiteral("1")>>),
     ObjectLiteral({}), ObjectLiteral({Pair(KeyA, NumberLiteral("1"))})}

NestedMatchers ==
    {NullMatcher, NumberMatcher(JavaNull), NumberMatcher(NumberToken("1")),
     NumberMatcher(NumberToken("abc")), ObjectMatcher(JavaNull),
     ObjectMatcher(ObjectMatcherBody(<<Member(KeyA, NumberMatcher(NumberToken("1")))>>)),
     InjectedNode}

DefaultObjectMatchers ==
    {ExactMatchObjectMatcher(lit) : lit \in Literals}
        \cup {MatchingObjectMatcher(m) : m \in NestedMatchers}
        \cup {InjectedNode}

ExtendedMatchers ==
    {DefaultExtendedMatcher(dm) : dm \in DefaultObjectMatchers}
        \cup {KeyValueObjectMatcher(k, m) : k \in {KeyA, KeyB},
                                            m \in NestedMatchers \cup {JavaNull}}
        \cup {InjectedNode}

InitExtended ==
    /\ pc = "call"
    /\ subject \in {JList(cs) : cs \in SeqsUpTo(ConstraintValues, MaxConstraints)}
    /\ matcher \in ExtendedMatchers
    /\ predicate = JavaNull
    /\ outcome = "none"
    /\ decisionResult = JavaNull

MatchExtendedConstraint ==
    /\ pc = "call"
    /\ outcome' = matchExtendedConstraint(subject.items, matcher)
    /\ pc' = "done"
    /\ UNCHANGED <<subject, matcher, predicate, decisionResult>>

NextExtended == MatchExtendedConstraint

SpecExtended == InitExtended /\ [][NextExtended]_vars

IsExtendedCase ==
    /\ pc = "done"
    /\ matcher.kind \in {"DefaultExtendedMatcher", "KeyValueObjectMatcher"}

\* one constraint value satisfies the extended matcher
Satisfies(c, extendedMatch) ==
    IF extendedMatch.kind = "DefaultExtendedMatcher"
    THEN matchDefaultObject(c, extendedMatch.defaultObjectMatcher) = "true"
    ELSE /\ instanceOf(c, "Object")
         /\ containsKey(c, unquoteString(extendedMatch.key))
         /\ \/ extendedMatch.matcher = JavaNull
            \/ matchNode(get(c, unquoteString(extendedMatch.key)),
                         extendedMatch.matcher) = "true"

\* C6: matchExtendedConstraint is true exactly when at least one element of
\* the list satisfies the extended matcher, and false on the empty list.
C6_ExistsSemantics ==
    IsExtendedCase =>
        /\ (outcome = "true") <=>
               \E i \in 1..Len(subject.items) : Satisfies(subject.items[i], matcher)
        /\ (subject.items = <<>> => outcome = "false")

\* the second element satisfies the matcher and the first does not
C6_Witness ==
    /\ IsExtendedCase
    /\ Len(subject.items) = 2
    /\ ~Satisfies(subject.items[1], matcher)
    /\ Satisfies(subject.items[2], matcher)
    /\ outcome = "true"

(***************************************************************************)
(* SpecPredicate: build the combined predicate of a clause list, then      *)
(* apply it to one decision.                                               *)
(***************************************************************************)
ConstraintLists ==
    {JavaNull, JList(<<>>), JList(<<ObjectValue({Entry(KeyA, NumberValue(10))})>>),
     JList(<<NumberValue(10)>>)}

Resources == {JavaNull, UndefinedValue, NullValue, NumberValue(10)}

Decisions ==
    {AuthorizationDecision(d, o, a, r) :
        d \in {"PERMIT", "DENY"}, o \in ConstraintLists \ {JList(<<NumberValue(10)>>)},
        a \in ConstraintLists \ {JavaNull}, r \in Resources}

Clauses ==
    {AnyDecisionMatcher, IsDecisionMatcher("permit"), IsDecisionMatcher("deny"),
     HasObligationOrAdviceMatcher("obligation", JavaNull),
     HasObligationOrAdviceMatcher("advice", JavaNull),
     HasObligationOrAdviceMatcher("obligation",
         KeyValueObjectMatcher(KeyA, NumberMatcher(NumberToken("1")))),
     HasObligationOrAdviceMatcher("advice",
         DefaultExtendedMatcher(MatchingObjectMatcher(NumberMatcher(NumberToken("abc"))))),
     HasResourceMatcher(JavaNull),
     HasResourceMatcher(ExactMatchObjectMatcher(NumberLiteral("1.0"))),
     HasResourceMatcher(MatchingObjectMatcher(NullMatcher)),
     HasResourceMatcher(MatchingObjectMatcher(NumberMatcher(NumberToken("2")))),
     InjectedNode}

InitPredicate ==
    /\ pc = "build"
    /\ subject \in Decisions \cup {JavaNull}
    /\ matcher \in SeqsUpTo(Clauses, MaxClauses)
    /\ predicate = JavaNull
    /\ outcome = "none"
    /\ decisionResult = JavaNull

BuildPredicate ==
    /\ pc = "build"
    /\ LET built == buildCombinedMatcherPredicate(matcher)
       IN  IF built.threw
           THEN /\ pc' = "threw"
                /\ outcome' = "IllegalArgumentException"
                /\ UNCHANGED predicate
           ELSE /\ pc' = "test"
                /\ predicate' = built.predicate
                /\ UNCHANGED outcome
    /\ UNCHANGED <<subject, matcher, decisionResult>>

TestPredicate ==
    /\ pc = "test"
    /\ outcome' = test(predicate, subject)
    /\ pc' = "done"
    /\ UNCHANGED <<subject, matcher, predicate, decisionResult>>

NextPredicate == BuildPredicate \/ TestPredicate

SpecPredicate == InitPredicate /\ [][NextPredicate]_vars

\* the outcome of the single-clause predicate of one clause on a decision
SingleOutcome(clause, decision) ==
    test(buildSingleMatcherPredicate(clause).predicate, decision)

\* C1: the combined predicate is true exactly when the decision is non-null
\* and every clause's single-clause predicate is true on that decision;
\* [Is(permit), HasResource(none)] is false on a permit decision whose
\* resource is Undefined, and a null decision is false for any clause list.
C1_CombinedIsConjunction ==
    pc = "done" =>
        /\ (outcome = "true") <=>
               /\ subject # JavaNull
               /\ \A i \in 1..Len(matcher) : SingleOutcome(matcher[i], subject) = "true"
        /\ (subject = JavaNull => outcome = "false")
        /\ ( /\ matcher = <<IsDecisionMatcher("permit"), HasResourceMatcher(JavaNull)>>
             /\ subject # JavaNull
             /\ subject.decision = "PERMIT"
             /\ subject.resource = UndefinedValue ) => outcome = "false"

C1_Witness ==
    /\ pc = "done"
    /\ matcher = <<IsDecisionMatcher("permit"), HasResourceMatcher(JavaNull)>>
    /\ subject # JavaNull
    /\ subject.decision = "PERMIT"
    /\ subject.resource = UndefinedValue
    /\ outcome = "false"

IsConstraintClauseCase ==
    /\ pc = "done"
    /\ Len(matcher) = 1
    /\ matcher[1].kind = "HasObligationOrAdviceMatcher"
    /\ subject # JavaNull

\* C9: a HasObligationOrAdvice clause reads the obligations or the advice by
\* its kind; it is false when that list is missing or empty, true for a
\* non-empty list when it has no extended matcher, and otherwise the result
\* of matchExtendedConstraint over that list.  The other list never matters.
C9_ConstraintClause ==
    IsConstraintClauseCase =>
        LET obligation == matcher[1].matcherType = "obligation"
            selected == IF obligation THEN subject.obligations ELSE subject.advice
            extended == matcher[1].extendedMatcher
        IN  /\ outcome =
                   IF selected = JavaNull THEN "false"
                   ELSE IF Len(selected.items) = 0 THEN "false"
                   ELSE IF extended = JavaNull THEN "true"
                   ELSE matchExtendedConstraint(selected.items, extended)
            /\ \A other \in ConstraintLists :
                   LET changed == IF obligation THEN [subject EXCEPT !.advice = other]
                                  ELSE [subject EXCEPT !.obligations = other]
                   IN  test(predicate, changed) = outcome

\* the advice is selected and matches while the obligations are empty
C9_Witness ==
    /\ IsConstraintClauseCase
    /\ matcher[1].matcherType = "advice"
    /\ subject.obligations = JList(<<>>)
    /\ outcome = "true"

IsResourceClauseCase ==
    /\ pc = "done"
    /\ Len(matcher) = 1
    /\ matcher[1].kind = "HasResourceMatcher"
    /\ subject # JavaNull

\* C10: a HasResource clause without a nested matcher is true exactly when
\* the resource is present and not Undefined; with a nested matcher it is
\* false for an absent or Undefined resource, equality with the converted
\* literal for exact-equals, and matchNode's result for the matches variant.
C10_ResourceClause ==
    IsResourceClauseCase =>
        LET resource == subject.resource
            nested == matcher[1].defaultMatcher
            missing == resource = JavaNull \/ resource = UndefinedValue
        IN  outcome =
                IF nested = JavaNull THEN Bool2Outcome(~missing)
                ELSE IF missing THEN "false"
                ELSE IF nested.kind = "ExactMatchObjectMatcher"
                     THEN Bool2Outcome(resource = convert(nested.equalTo))
                     ELSE matchNode(resource, nested.nodeMatcher)

\* no nested matcher and an Undefined resource
C10_Witness ==
    /\ IsResourceClauseCase
    /\ matcher[1].defaultMatcher = JavaNull
    /\ subject.resource = UndefinedValue
    /\ outcome = "false"

(***************************************************************************)
(* Spec: a scenario executes its expectation against the decision result   *)
(* of its evaluation.                                                      *)
(***************************************************************************)
StreamDecisions ==
    {AuthorizationDecision("PERMIT", JList(<<>>), JList(<<>>), UndefinedValue),
     AuthorizationDecision("PERMIT",
         JList(<<ObjectValue({Entry(KeyA, NumberValue(10))})>>), JList(<<>>),
         NumberValue(10)),
     AuthorizationDecision("DENY", JList(<<>>), JList(<<>>), NumberValue(10))}

ExpectationClauses ==
    {IsDecisionMatcher("permit"), HasResourceMatcher(JavaNull),
     HasObligationOrAdviceMatcher("obligation", JavaNull), InjectedNode}

StepClauses == {IsDecisionMatcher("permit"), HasResourceMatcher(JavaNull)}

NonEmpty(seqs) == seqs \ {<<>>}

SingleExpectations ==
    {SingleExpectation(t, cs) :
        t \in {"permit", "deny"}, cs \in {<<>>, <<HasResourceMatcher(JavaNull)>>}}

MatcherExpectations ==
    {MatcherExpectation(ms) : ms \in NonEmpty(SeqsUpTo(ExpectationClauses, MaxClauses))}

Steps ==
    {NextWithMatcherStep(ms) :
        ms \in NonEmpty(SeqsUpTo(StepClauses, MaxClauses)) \cup {<<InjectedNode>>}}

StreamExpectations == {StreamExpectation(ss) : ss \in NonEmpty(SeqsUpTo(Steps, MaxSteps))}

Init ==
    /\ pc = "expect"
    /\ subject = JavaNull
    /\ matcher = JavaNull
    /\ predicate = JavaNull
    /\ outcome = "none"
    /\ decisionResult \in {NewDecisionResult(st) : st \in SeqsUpTo(StreamDecisions, MaxStream)}

\* executeExpectation(decisionResult, expectation), for one expectation
Execute(expectation) ==
    /\ pc = "expect"
    /\ LET r == executeExpectation(decisionResult, expectation)
       IN  /\ decisionResult' = r.dr
           /\ outcome' = r.exception
    /\ matcher' = expectation
    /\ pc' = "done"
    /\ UNCHANGED <<subject, predicate>>

ExecuteSingleExpectation == \E e \in SingleExpectations : Execute(e)

ExecuteMatcherExpectation == \E e \in MatcherExpectations : Execute(e)

ExecuteStreamExpectation == \E e \in StreamExpectations : Execute(e)

Next ==
    \/ ExecuteSingleExpectation
    \/ ExecuteMatcherExpectation
    \/ ExecuteStreamExpectation

Spec == Init /\ [][Next]_vars

DecisionMatcherKinds ==
    {"AnyDecisionMatcher", "IsDecisionMatcher", "HasObligationOrAdviceMatcher",
     "HasResourceMatcher"}

WellFormed(clauses) == \A i \in 1..Len(clauses) : clauses[i].kind \in DecisionMatcherKinds

\* the k-th check consumed the k-th decision and holds the conjunction of
\* the clauses on that one decision
OneCombinedCheck(dr, k, clauses) ==
    /\ k <= Len(dr.checks)
    /\ dr.checks[k].position = k
    /\ (dr.checks[k].result = "true") <=>
           /\ k <= Len(dr.stream)
           /\ \A i \in 1..Len(clauses) : SingleOutcome(clauses[i], dr.stream[k]) = "true"

\* C2: a matcher expectation with N >= 1 clauses issues exactly one check,
\* whose result is that of all N clauses on the one decision it consumes;
\* each next-with-matcher step of a stream expectation does the same for
\* its own clauses.  It never issues a check per clause.
C2_OneCheckPerClauseList ==
    /\ ( /\ pc = "done"
         /\ matcher.kind = "MatcherExpectation"
         /\ WellFormed(matcher.matchers) ) =>
            /\ Len(decisionResult.checks) = 1
            /\ decisionResult.cursor = 1
            /\ OneCombinedCheck(decisionResult, 1, matcher.matchers)
    /\ ( /\ pc = "done"
         /\ matcher.kind = "StreamExpectation"
         /\ \A k \in 1..Len(matcher.expectStep) : WellFormed(matcher.expectStep[k].matchers) ) =>
            /\ Len(decisionResult.checks) = Len(matcher.expectStep)
            /\ decisionResult.cursor = Len(matcher.expectStep)
            /\ \A k \in 1..Len(matcher.expectStep) :
                   OneCombinedCheck(decisionResult, k, matcher.expectStep[k].matchers)

\* two clauses that hold on different decisions of the stream, not on one
C2_Witness ==
    /\ pc = "done"
    /\ matcher = MatcherExpectation(<<IsDecisionMatcher("permit"), HasResourceMatcher(JavaNull)>>)
    /\ Len(decisionResult.stream) = 2
    /\ decisionResult.stream[1].resource = UndefinedValue
    /\ decisionResult.stream[2].resource = NumberValue(10)
    /\ decisionResult.checks = <<[position |-> 1, result |-> "false"]>>

(***************************************************************************)
(* Structural mismatch, checked under SpecNode.                            *)
(***************************************************************************)
StringMatcherKinds ==
    {"StringIsNull", "StringIsBlank", "StringIsEmpty", "StringIsNullOrEmpty",
     "StringIsNullOrBlank", "StringEqualCompressedWhitespace",
     "StringEqualIgnoringCase", "StringMatchesRegex", "StringStartsWith",
     "StringEndsWith", "StringContains", "StringContainsInOrder",
     "StringWithLength"}

\* a string matcher of the closed set whose literal operands are valid
WellFormedString(m) ==
    CASE m.kind = "PlainStringMatcher" -> TRUE
      [] m.kind = "ComplexStringMatcher" ->
            /\ m.stringMatcher.kind \in StringMatcherKinds
            /\ m.stringMatcher.kind = "StringWithLength"
                   => parseInt(getText(m.stringMatcher.length)).ok
            /\ m.stringMatcher.kind = "StringMatchesRegex"
                   => patternCompiles(unquoteString(m.stringMatcher.regex))
      [] OTHER -> FALSE

\* a node matcher of the closed set, at every depth, with valid literals
RECURSIVE WellFormedNode(_)
WellFormedNode(m) ==
    CASE m.kind = "NullMatcher" -> TRUE
      [] m.kind = "TextMatcher" ->
            m.stringOrStringMatcher # JavaNull => WellFormedString(m.stringOrStringMatcher)
      [] m.kind = "NumberMatcher" ->
            m.number # JavaNull => parseDouble(getText(m.number)).ok
      [] m.kind = "BooleanMatcher" -> TRUE
      [] m.kind = "ArrayMatcher" ->
            m.arrayMatcherBody # JavaNull =>
                \A i \in 1..Len(m.arrayMatcherBody.matchers) :
                    WellFormedNode(m.arrayMatcherBody.matchers[i])
      [] m.kind = "ObjectMatcher" ->
            m.objectMatcherBody # JavaNull =>
                \A i \in 1..Len(m.objectMatcherBody.members) :
                    WellFormedNode(m.objectMatcherBody.members[i].matcher)
      [] OTHER -> FALSE

\* the value has the wrong shape for the matcher somewhere: an absent value,
\* another variant than the matcher targets, an array of another length, a
\* declared key that is missing, or such a mismatch below
RECURSIVE StructuralMismatch(_, _)
StructuralMismatch(v, m) ==
    IF v = JavaNull THEN m.kind # "NullMatcher"
    ELSE IF v.tag # TargetTag(m) THEN TRUE
    ELSE CASE m.kind = "ArrayMatcher" /\ m.arrayMatcherBody # JavaNull ->
                LET ms == m.arrayMatcherBody.matchers
                IN  \/ Len(v.elems) # Len(ms)
                    \/ \E i \in 1..Len(ms) : StructuralMismatch(v.elems[i], ms[i])
           [] m.kind = "ObjectMatcher" /\ m.objectMatcherBody # JavaNull ->
                LET members == m.objectMatcherBody.members
                IN  \E i \in 1..Len(members) :
                        LET key == unquoteString(members[i].key)
                        IN  \/ ~containsKey(v, key)
                            \/ StructuralMismatch(get(v, key), members[i].matcher)
           [] OTHER -> FALSE

\* C11: for a well-formed matcher of the closed variant set, a structural
\* mismatch between value and matcher, at any nesting depth, makes matchNode
\* return false; it never raises an error.
C11_MismatchIsFalse ==
    (pc = "done" /\ WellFormedNode(matcher) /\ StructuralMismatch(subject, matcher))
        => outcome = "false"

\* an array of the right length whose nested array has the wrong length
C11_Witness ==
    /\ pc = "done"
    /\ subject = ArrayValue(<<NumberValue(10), ArrayValue(<<>>)>>)
    /\ matcher = ArrayMatcher(ArrayMatcherBody(
                     <<NumberMatcher(NumberToken("1")),
                       ArrayMatcher(ArrayMatcherBody(<<NumberMatcher(NumberToken("1"))>>))>>))
    /\ WellFormedNode(matcher)
    /\ StructuralMismatch(subject, matcher)
    /\ outcome = "false"

(***************************************************************************)
(* Malformed literal operands, checked under SpecNode.                     *)
(***************************************************************************)
\* a NumberMatcher whose literal is not a number, or a TextMatcher with a
\* has-length matcher whose literal is not an integer
MalformedLiteral(m) ==
    \/ /\ m.kind = "NumberMatcher"
       /\ m.number # JavaNull
       /\ ~parseDouble(getText(m.number)).ok
    \/ /\ m.kind = "TextMatcher"
       /\ m.stringOrStringMatcher # JavaNull
       /\ m.stringOrStringMatcher.kind = "ComplexStringMatcher"
       /\ m.stringOrStringMatcher.stringMatcher.kind = "StringWithLength"
       /\ ~parseInt(getText(m.stringOrStringMatcher.stringMatcher.length)).ok

\* C12 as claimed: a matcher with a malformed numeric literal makes the match
\* fail with the malformed-literal error for every value it is applied to.
C12_MalformedAlwaysFails ==
    (pc = "done" /\ MalformedLiteral(matcher)) => outcome = "NumberFormatException"

\* C12 as amended: the match fails with NumberFormatException for every
\* value of the variant the matcher targets (Number for a NumberMatcher, Text
\* for has-length) and is false, without parsing the literal, for every
\* other value and for an absent one.
C12_MalformedFailsOnTargetVariant ==
    (pc = "done" /\ MalformedLiteral(matcher)) =>
        outcome = IF instanceOf(subject, TargetTag(matcher))
                  THEN "NumberFormatException"
                  ELSE "false"

\* a Number value against a NumberMatcher whose literal does not parse
C12_Witness ==
    /\ pc = "done"
    /\ matcher = NumberMatcher(NumberToken("abc"))
    /\ subject = NumberValue(10)
    /\ outcome = "NumberFormatException"

(***************************************************************************)
(* Order of the clauses, checked under SpecPredicate.                      *)
(***************************************************************************)
\* the lists with the same clauses in another order
Reorderings(clauses) ==
    {[i \in 1..Len(clauses) |-> clauses[f[i]]] : f \in Permutations(1..Len(clauses))}

\* what building the predicate of a clause list and applying it gives
BuildAndTest(clauses, decision) ==
    LET built == buildCombinedMatcherPredicate(clauses)
    IN  IF built.threw THEN "IllegalArgumentException"
        ELSE test(built.predicate, decision)

\* the single-clause predicate of every clause returns true or false
NoClauseRaises(clauses, decision) ==
    \A i \in 1..Len(clauses) : SingleOutcome(clauses[i], decision) \in {"true", "false"}

\* C13 as claimed: the predicate of every reordering of the clause list has
\* the same outcome on the decision, also when a clause raises an error.
C13_OrderNeverMatters ==
    pc \in {"done", "threw"} =>
        \A reordered \in Reorderings(matcher) : BuildAndTest(reordered, subject) = outcome

\* C13 as amended: a clause of unknown type makes the build fail in every
\* order; otherwise every reordering agrees on whether the outcome is true,
\* and has the same outcome whenever no clause raises an error on the
\* decision.  When a clause raises, the order decides between the error and
\* false, because a false clause ends the evaluation before the later ones.
C13_OrderMattersOnlyForErrors ==
    /\ pc = "threw" =>
           \A reordered \in Reorderings(matcher) :
               buildCombinedMatcherPredicate(reordered).threw
    /\ pc = "done" =>
           \A reordered \in Reorderings(matcher) :
               LET other == BuildAndTest(reordered, subject)
               IN  /\ (other = "true") <=> (outcome = "true")
                   /\ other # "IllegalArgumentException"
                   /\ NoClauseRaises(matcher, subject) => other = outcome

\* a clause that raises before a false clause: the error in this order,
\* false in the other
C13_Witness ==
    /\ pc = "done"
    /\ Len(matcher) = 2
    /\ ~NoClauseRaises(matcher, subject)
    /\ outcome = "NumberFormatException"
    /\ BuildAndTest(<<matcher[2], matcher[1]>>, subject) = "false"

(***************************************************************************)
(* Fail-fast array matching against checking every position, under         *)
(* SpecNode.                                                               *)
(***************************************************************************)
\* the positions that have both an element and an element matcher
SharedPositions(elems, matchers) ==
    1..(IF Len(elems) < Len(matchers) THEN Len(elems) ELSE Len(matchers))

\* the evaluation that checks every position and then conjoins the results
\* with the length test: an error raised at a position is the outcome (the
\* leftmost, when several positions raise)
AllPositionsChecked(elems, matchers) ==
    LET r == [i \in SharedPositions(elems, matchers) |-> matchNode(elems[i], matchers[i])]
        raising == {i \in DOMAIN r : IsException(r[i])}
    IN  IF raising # {}
        THEN r[CHOOSE i \in raising : \A j \in raising : i <= j]
        ELSE Bool2Outcome(/\ Len(elems) = Len(matchers)
                          /\ \A i \in DOMAIN r : r[i] = "true")

NoPositionRaises(elems, matchers) ==
    \A i \in SharedPositions(elems, matchers) :
        ~IsException(matchNode(elems[i], matchers[i]))

\* C14 as claimed: matching an array against an ArrayMatcher body has the
\* outcome (true, false or error) of checking every position and conjoining
\* the results.
C14_FailFastUnobservable ==
    IsArrayCase =>
        outcome = AllPositionsChecked(subject.elems, matcher.arrayMatcherBody.matchers)

\* C14 as amended: the fail-fast evaluation is true exactly when the
\* evaluation of every position is true, and has the same outcome whenever
\* no position raises an error; when a position raises, the fail-fast
\* outcome is that of checking every position or false, false being the
\* result of a length mismatch or of a mismatching position to its left.
C14_FailFastHidesOnlyErrors ==
    IsArrayCase =>
        LET matchers == matcher.arrayMatcherBody.matchers
            all == AllPositionsChecked(subject.elems, matchers)
        IN  /\ (outcome = "true") <=> (all = "true")
            /\ NoPositionRaises(subject.elems, matchers) => outcome = all
            /\ outcome \in {all, "false"}

\* a mismatch at the first position hides the error a malformed literal
\* raises at the second
C14_Witness ==
    /\ IsArrayCase
    /\ Len(subject.elems) = 2
    /\ Len(matcher.arrayMatcherBody.matchers) = 2
    /\ matchNode(subject.elems[1], matcher.arrayMatcherBody.matchers[1]) = "false"
    /\ matchNode(subject.elems[2], matcher.arrayMatcherBody.matchers[2]) = "NumberFormatException"
    /\ outcome = "false"

(***************************************************************************)
(* String matchers reached through matchNode, under SpecNode.              *)
(***************************************************************************)
IsTextMatcherCase == pc = "done" /\ matcher.kind = "TextMatcher"

\* the value is a Text whose content satisfies P
TextWith(P(_)) == instanceOf(subject, "Text") /\ P(subject.value.chars)

\* C15: through matchNode the content handed to a string matcher is never
\* null: TextMatcher(is-null) is false for every value, is-null-or-empty and
\* is-null-or-blank accept exactly the empty and the blank texts, as is-empty
\* and is-blank do, and a Null or absent value satisfies no TextMatcher.
C15_TextContentNeverNull ==
    IsTextMatcherCase =>
        LET m == matcher.stringOrStringMatcher
        IN  /\ m = ComplexStringMatcher(StringIsNull) => outcome = "false"
            /\ m \in {ComplexStringMatcher(StringIsNullOrEmpty),
                      ComplexStringMatcher(StringIsEmpty)}
                   => outcome = Bool2Outcome(TextWith(isEmpty))
            /\ m \in {ComplexStringMatcher(StringIsNullOrBlank),
                      ComplexStringMatcher(StringIsBlank)}
                   => outcome = Bool2Outcome(TextWith(isBlank))
            /\ (subject \in {JavaNull, NullValue, UndefinedValue}) => outcome = "false"

\* the absent value against is-null-or-empty: not a match
C15_Witness ==
    /\ IsTextMatcherCase
    /\ matcher.stringOrStringMatcher = ComplexStringMatcher(StringIsNullOrEmpty)
    /\ subject = JavaNull
    /\ outcome = "false"

====
